---- MODULE Spec2Model ----
(***************************************************************************)
(* syscheck daemon (src/main.go): the result store guarded by a            *)
(* sync.RWMutex, the check loop goroutine (runCheckLoop), the ticker and   *)
(* the cancellation context, and the HTTP handlers that read snapshots.    *)
(***************************************************************************)
EXTENDS Integers, Sequences, FiniteSets, TLC

\* ------------------------------------------------------------------ bounds
\* Number of ticks the ticker fires in a run (time is unbounded in the code).
MaxTicks == 1

\* Where the clock and the counters stop growing in the runs with an endless
\* ticker (LiveSpec); the loop's control flow reads none of them.
LiveCap == 2

\* Concurrent HTTP handler goroutines calling snapshot().
Readers == {"r1", "r2"}

\* Values of parseTargets(*targetsFlag): non-empty, duplicates are kept.
TargetLists == {<<"a">>, <<"a", "b">>, <<"a", "a">>}

\* Status codes client.Do hands back in a run, and the error of a probe that
\* got no response (http.NewRequest or client.Do failed).
StatusCodes == {200, 404}
ProbeErrors == {"timeout"}

\* The address of the store's own map; a snapshot's copy lives at heap[r].
StoreMap == "store"

VARIABLES
    targets,      \* the configured target list, fixed after main parsed it
    heap,         \* Go maps are references: address -> map[string]checkResult
    successHits,  \* resultStore.successHits
    failHits,     \* resultStore.failHits
    muWriter,     \* resultStore.mu is held by a writer
    muReaders,    \* the readers holding resultStore.mu
    pc,           \* where the runCheckLoop goroutine is
    idx,          \* position of checkOnce's range loop in targets
    status,       \* checkOnce local: status returned by checkTarget
    err,          \* checkOnce local: err returned by checkTarget ("" = nil)
    res,          \* update's argument res
    success,      \* update's argument success
    ctxDone,      \* ctx.Done() is closed
    tickC,        \* ticks buffered in ticker.C (capacity 1)
    now,          \* time.Now() as a logical clock, one reading per probe
    rpc,          \* where each handler's snapshot call is
    snap,         \* what snapshot returned to each handler
    health,       \* the "status" field the /health handler derived
    ticks,        \* history: ticks fired by the ticker
    passes,       \* history: passes (checkOnce calls) started
    taken,        \* history: the store content a snapshot's copy was taken from
    cancelAt      \* history: where the loop was when ctx was cancelled

vars == <<targets, heap, successHits, failHits, muWriter, muReaders, pc, idx,
          status, err, res, success, ctxDone, tickC, now, rpc, snap, health,
          ticks, passes, taken, cancelAt>>

storeVars == <<heap, successHits, failHits>>
loopVars == <<pc, idx, status, err, res, success, now, passes>>
readVars == <<rpc, snap, health, taken>>

\* ------------------------------------------------------------------ data
Range(s) == {s[i] : i \in DOMAIN s}

\* type checkResult; the zero time.Time is 0.
checkResult(t, code, e, at) ==
    [Target |-> t, StatusCode |-> code, LastError |-> e, CheckedAt |-> at]

NoRes == checkResult("", 0, "", 0)
EmptyMap == << >>
NoSnap == [valid |-> FALSE, ref |-> StoreMap, success |-> 0, failure |-> 0]
NoTaken == [results |-> EmptyMap, success |-> 0, failure |-> 0, upd |-> 0]

\* Mutant: the map is made but the init loop (lines 74-76) is missing.
newResultStore_NoInit(ts) == EmptyMap

\* newResultStore: one zero-value entry per target.
newResultStore(ts) == [t \in Range(ts) |-> checkResult(t, 0, "", 0)]

\* Mutant: update replaces the whole map by the one new entry.
updateResults_Replace(results, r) == [k \in {r.Target} |-> r]

\* Mutant: update keeps the first result recorded for a target.
updateResults_KeepFirst(results, r) ==
    IF r.Target \in DOMAIN results /\ results[r.Target].CheckedAt > 0
    THEN results
    ELSE [k \in DOMAIN results \cup {r.Target} |-> IF k = r.Target THEN r ELSE results[k]]

\* update, line 83: s.results[res.Target] = res
updateResults(results, r) ==
    [k \in DOMAIN results \cup {r.Target} |-> IF k = r.Target THEN r ELSE results[k]]

\* Mutant: the else branch (lines 86-88) is missing.
updateHits_NoElse(ok, s, f) == IF ok THEN <<s + 1, f>> ELSE <<s, f>>

\* Mutant: a success resets the failure counter.
updateHits_Reset(ok, s, f) == IF ok THEN <<s + 1, 0>> ELSE <<s, f + 1>>

\* update, lines 84-88: exactly one of the two counters is incremented.
updateHits(ok, s, f) == IF ok THEN <<s + 1, f>> ELSE <<s, f + 1>>

\* snapshot, lines 94-97: cp is a fresh map filled from s.results.
snapshotCopy(results) == [k \in DOMAIN results |-> results[k]]

\* Mutant: snapshot returns s.results itself.
snapshotRef_Alias(r) == StoreMap

\* snapshot, line 98: the map returned is the copy, not s.results.
snapshotRef(r) == r

\* Mutant: mu is a plain sync.Mutex, RLock is an exclusive Lock.
RLockFree_Exclusive == ~muWriter /\ pc # "lockwait" /\ muReaders = {}

\* Mutant: snapshot does not take the lock.
RLockFree_NoLock == TRUE

\* sync.RWMutex: RLock proceeds unless a writer holds or awaits the lock.
RLockFree == ~muWriter /\ pc # "lockwait"

\* sync.RWMutex: Lock proceeds when nobody holds the lock.
LockFree == ~muWriter /\ muReaders = {}

\* checkTarget: (0, err) when the request cannot be built or sent, else
\* (resp.StatusCode, nil) whatever the status code is.
checkTarget ==
    {<<0, e>> : e \in ProbeErrors} \cup {<<c, "">> : c \in StatusCodes}

\* Mutant: checkOnce ranges over the targets from the last to the first.
checkOnceTarget_Reverse(ts, i) == ts[Len(ts) + 1 - i]

\* checkOnce, line 165: the target of the i-th iteration of the range loop.
checkOnceTarget(ts, i) == ts[i]

\* Mutant: checkOnce gives up on the first failed probe and the loop returns.
checkOnceNext_ReturnOnFail(i, n, ok) ==
    IF ~ok THEN [pc |-> "stopped", idx |-> 0]
    ELSE IF i < n THEN [pc |-> "probe", idx |-> i + 1]
    ELSE [pc |-> "select", idx |-> 0]

\* Mutant: checkOnce checks ctx between two targets and the loop returns.
checkOnceNext_CtxCheck(i, n, ok) ==
    IF ctxDone THEN [pc |-> "stopped", idx |-> 0]
    ELSE IF i < n THEN [pc |-> "probe", idx |-> i + 1]
    ELSE [pc |-> "select", idx |-> 0]

\* checkOnce, lines 165, 175 and 180: after the i-th of n targets, whether its
\* update was a success or not, the range loop goes on with the next target;
\* after the last one checkOnce returns and the loop reaches its select.
checkOnceNext(i, n, ok) ==
    IF i < n THEN [pc |-> "probe", idx |-> i + 1]
    ELSE [pc |-> "select", idx |-> 0]

\* Mutant: line 183 is missing, the loop waits for the first tick.
runCheckLoopEntry_NoFirstPass == [pc |-> "select", idx |-> 0, passes |-> 0]

\* runCheckLoop, line 183: checkOnce() is called before the for/select loop.
runCheckLoopEntry == [pc |-> "probe", idx |-> 1, passes |-> 1]

\* checkOnce, lines 167-178: the result handed to update.
checkOnceRes(t, st, e, at) ==
    IF e # "" THEN checkResult(t, 0, e, at) ELSE checkResult(t, st, "", at)

\* Mutant: the error branch calls update(res, true) as well.
checkOnceSuccess_AlwaysTrue(st, e) == TRUE

\* checkOnce, lines 171-178: update(res, false) on error, update(res, true) else.
checkOnceSuccess(st, e) == e = ""

\* Mutant: the r.StatusCode == 0 test is missing.
deriveStatus_NoZero(results) ==
    IF \E k \in DOMAIN results :
          \/ results[k].LastError # ""
          \/ results[k].StatusCode >= 400
    THEN "degraded"
    ELSE "healthy"

\* deriveStatus, lines 219-226; the order Go ranges over the map in does not
\* change the result.
deriveStatus(results) ==
    IF \E k \in DOMAIN results :
          \/ results[k].LastError # ""
          \/ results[k].StatusCode >= 400
          \/ results[k].StatusCode = 0
    THEN "degraded"
    ELSE "healthy"

\* The counters that belong to the map now in the store: between lines 83 and
\* 84-88 of an update the map is already the one of the update's outcome.
committedHits ==
    IF pc = "count"
    THEN IF success THEN <<successHits + 1, failHits>> ELSE <<successHits, failHits + 1>>
    ELSE <<successHits, failHits>>

\* The update calls that have returned: every probe made, less the one whose
\* update has not released the lock yet.
updatesDone ==
    now - (IF pc \in {"lockwait", "write", "count"} THEN 1 ELSE 0)

\* Where the loop is: inside a pass, about to evaluate its select, or parked in it.
loopPhase ==
    IF pc \in {"select", "parked", "stopped"} THEN pc ELSE "pass"

\* n as the code computes it, or held at LiveCap in the runs with an endless ticker.
Cap(n, sat) == IF sat /\ n > LiveCap THEN LiveCap ELSE n

\* ------------------------------------------------------------------ init
\* main after flag parsing: the store is built, the loop goroutine starts and
\* runs checkOnce() at once; no handler has been called.
Init ==
    /\ targets \in TargetLists
    /\ heap = [a \in {StoreMap} \cup Readers |->
                 IF a = StoreMap THEN newResultStore(targets) ELSE EmptyMap]
    /\ successHits = 0
    /\ failHits = 0
    /\ muWriter = FALSE
    /\ muReaders = {}
    /\ pc = runCheckLoopEntry.pc
    /\ idx = runCheckLoopEntry.idx
    /\ status = 0
    /\ err = ""
    /\ res = NoRes
    /\ success = FALSE
    /\ ctxDone = FALSE
    /\ tickC = 0
    /\ now = 0
    /\ rpc = [r \in Readers |-> "idle"]
    /\ snap = [r \in Readers |-> NoSnap]
    /\ health = [r \in Readers |-> ""]
    /\ ticks = 0
    /\ passes = runCheckLoopEntry.passes
    /\ taken = [r \in Readers |-> NoTaken]
    /\ cancelAt = "none"

\* ------------------------------------------------------------------ check loop
\* checkOnce, lines 166-173/177-178: probe targets[idx], build res and call
\* update, whose s.mu.Lock() (line 81) is taken at once or makes the writer wait.
\* Everything before the Lock touches only locals of the loop goroutine.
ProbeIn(sat) ==
    /\ pc = "probe"
    /\ \E out \in checkTarget :
          /\ status' = out[1]
          /\ err' = out[2]
          /\ res' = checkOnceRes(checkOnceTarget(targets, idx), out[1], out[2],
                                 Cap(now + 1, sat))
          /\ success' = checkOnceSuccess(out[1], out[2])
    /\ now' = Cap(now + 1, sat)
    /\ IF LockFree
       THEN muWriter' = TRUE /\ pc' = "write"
       ELSE muWriter' = muWriter /\ pc' = "lockwait"
    /\ UNCHANGED <<targets, storeVars, muReaders, idx, ctxDone, tickC,
                   passes, readVars, ticks, cancelAt>>

Probe == ProbeIn(FALSE)

\* update, line 81: the waiting writer gets the lock once the readers left.
updateLockWait ==
    /\ pc = "lockwait"
    /\ LockFree
    /\ muWriter' = TRUE
    /\ pc' = "write"
    /\ UNCHANGED <<targets, storeVars, muReaders, idx, status, err, res, success,
                   ctxDone, tickC, now, passes, readVars, ticks, cancelAt>>

\* update, line 83.
updateWrite ==
    /\ pc = "write"
    /\ heap' = [heap EXCEPT ![StoreMap] = updateResults(@, res)]
    /\ pc' = "count"
    /\ UNCHANGED <<targets, successHits, failHits, muWriter, muReaders, idx,
                   status, err, res, success, ctxDone, tickC, now, passes,
                   readVars, ticks, cancelAt>>

\* update, lines 84-89, the deferred Unlock, and checkOnce's step to the next
\* target (continue / end of the range loop); after the last target checkOnce
\* returns and the loop reaches its select.
updateCountIn(sat) ==
    /\ pc = "count"
    /\ successHits' = Cap(updateHits(success, successHits, failHits)[1], sat)
    /\ failHits' = Cap(updateHits(success, successHits, failHits)[2], sat)
    /\ muWriter' = FALSE
    /\ pc' = checkOnceNext(idx, Len(targets), success).pc
    /\ idx' = checkOnceNext(idx, Len(targets), success).idx
    /\ status' = 0
    /\ err' = ""
    /\ res' = NoRes
    /\ success' = FALSE
    /\ UNCHANGED <<targets, heap, muReaders, ctxDone, tickC, now, passes,
                   readVars, ticks, cancelAt>>

updateCount == updateCountIn(FALSE)

\* runCheckLoop, lines 186-191, select entered with a case ready: a ready case
\* is chosen at random.
SelectDone ==
    /\ pc = "select"
    /\ ctxDone
    /\ pc' = "stopped"
    /\ UNCHANGED <<targets, storeVars, muWriter, muReaders, idx, status, err, res,
                   success, ctxDone, tickC, now, passes, readVars, ticks, cancelAt>>

SelectTickIn(sat) ==
    /\ pc = "select"
    /\ tickC > 0
    /\ tickC' = tickC - 1
    /\ pc' = "probe"
    /\ idx' = 1
    /\ passes' = Cap(passes + 1, sat)
    /\ UNCHANGED <<targets, storeVars, muWriter, muReaders, status, err, res,
                   success, ctxDone, now, readVars, ticks, cancelAt>>

SelectTick == SelectTickIn(FALSE)

\* runCheckLoop, line 186: no case is ready, the goroutine parks on both channels.
SelectPark ==
    /\ pc = "select"
    /\ ~ctxDone
    /\ tickC = 0
    /\ pc' = "parked"
    /\ UNCHANGED <<targets, storeVars, muWriter, muReaders, idx, status, err, res,
                   success, ctxDone, tickC, now, passes, readVars, ticks, cancelAt>>

\* ------------------------------------------------------------------ environment
\* Mutant: ticker.C keeps every tick (an unbounded channel).
tickerSend_Unbounded(c) == c + 1

\* time.Ticker's send on ticker.C (capacity 1) never blocks: the tick is
\* buffered if the channel is empty and dropped if it is full.
tickerSend(c) == 1

\* signal.NotifyContext cancels ctx: Done is closed. A loop parked in select is
\* woken by the close with that case chosen and returns (line 188).
Cancel ==
    /\ ~ctxDone
    /\ ctxDone' = TRUE
    /\ cancelAt' = loopPhase
    /\ pc' = IF pc = "parked" THEN "stopped" ELSE pc
    /\ UNCHANGED <<targets, storeVars, muWriter, muReaders, idx, status, err, res,
                   success, tickC, now, passes, readVars, ticks>>

\* time.Ticker (line 161) fires: a loop parked in select receives the tick and
\* starts a pass (line 190); otherwise the tick is buffered if ticker.C is empty
\* and dropped if it is full. ticker.Stop() runs when runCheckLoop returns.
TickIn(sat, n) ==
    /\ pc # "stopped"
    /\ sat \/ ticks < n
    /\ ticks' = Cap(ticks + 1, sat)
    /\ IF pc = "parked"
       THEN /\ pc' = "probe"
            /\ idx' = 1
            /\ passes' = Cap(passes + 1, sat)
            /\ tickC' = tickC
       ELSE /\ tickC' = tickerSend(tickC)
            /\ UNCHANGED <<pc, idx, passes>>
    /\ UNCHANGED <<targets, storeVars, muWriter, muReaders, status, err, res,
                   success, ctxDone, now, readVars, cancelAt>>

Tick == TickIn(FALSE, MaxTicks)

\* ------------------------------------------------------------------ handlers
\* A handler calls store.snapshot(): line 92, s.mu.RLock(). What an earlier
\* request on this slot held is garbage by now.
snapshotRLock(r) ==
    /\ rpc[r] = "idle"
    /\ RLockFree
    /\ muReaders' = muReaders \cup {r}
    /\ rpc' = [rpc EXCEPT ![r] = "locked"]
    /\ snap' = [snap EXCEPT ![r] = NoSnap]
    /\ health' = [health EXCEPT ![r] = ""]
    /\ taken' = [taken EXCEPT ![r] = NoTaken]
    /\ heap' = [heap EXCEPT ![r] = EmptyMap]
    /\ UNCHANGED <<targets, successHits, failHits, muWriter, loopVars, ctxDone,
                   tickC, ticks, cancelAt>>

\* snapshot, lines 94-97: the copy loop.
snapshotFill(r) ==
    /\ rpc[r] = "locked"
    /\ heap' = [heap EXCEPT ![r] = snapshotCopy(heap[StoreMap])]
    /\ taken' = [taken EXCEPT ![r] = [results |-> heap[StoreMap],
                                      success |-> committedHits[1],
                                      failure |-> committedHits[2],
                                      upd |-> updatesDone]]
    /\ rpc' = [rpc EXCEPT ![r] = "copied"]
    /\ UNCHANGED <<targets, successHits, failHits, muWriter, muReaders, loopVars,
                   ctxDone, tickC, snap, health, ticks, cancelAt>>

\* snapshot, line 98 and the deferred RUnlock; the /health handler (lines
\* 125-134) derives the status from the map it was handed.
snapshotReturn(r) ==
    /\ rpc[r] = "copied"
    /\ snap' = [snap EXCEPT ![r] = [valid |-> TRUE, ref |-> snapshotRef(r),
                                    success |-> successHits, failure |-> failHits]]
    /\ health' = [health EXCEPT ![r] = deriveStatus(heap[snapshotRef(r)])]
    /\ muReaders' = muReaders \ {r}
    /\ rpc' = [rpc EXCEPT ![r] = "idle"]
    /\ UNCHANGED <<targets, storeVars, muWriter, loopVars, ctxDone, tickC, taken,
                   ticks, cancelAt>>

Next ==
    \/ Probe
    \/ updateLockWait
    \/ updateWrite
    \/ updateCount
    \/ SelectDone
    \/ SelectTick
    \/ SelectPark
    \/ Cancel
    \/ Tick
    \/ \E r \in Readers : snapshotRLock(r)
    \/ \E r \in Readers : snapshotFill(r)
    \/ \E r \in Readers : snapshotReturn(r)

Spec == Init /\ [][Next]_vars

\* ------------------------------------------------------------------ the loop with an endless ticker
\* The check loop, the ticker and the cancellation with no handler running: the
\* ticker fires for ever, the clock and the counters are held at LiveCap.
ProbeLive == ProbeIn(TRUE)
updateCountLive == updateCountIn(TRUE)
SelectTickLive == SelectTickIn(TRUE)
TickLive == TickIn(TRUE, 0)

NextLive ==
    \/ ProbeLive
    \/ updateWrite
    \/ updateCountLive
    \/ SelectDone
    \/ SelectTickLive
    \/ SelectPark
    \/ Cancel
    \/ TickLive

\* Every probe returns, the loop goroutine is scheduled whenever it can take a
\* step, and the ticker keeps firing until it is stopped.
LiveSpec ==
    /\ Init
    /\ [][NextLive]_vars
    /\ WF_vars(ProbeLive)
    /\ WF_vars(updateWrite)
    /\ WF_vars(updateCountLive)
    /\ WF_vars(SelectDone)
    /\ WF_vars(SelectTickLive)
    /\ WF_vars(SelectPark)
    /\ WF_vars(TickLive)

\* ------------------------------------------------------------------ the loop and a faster ticker
\* The check loop, the cancellation and a ticker that fires up to MaxLoopTicks
\* times, so that several intervals can elapse within one pass; no handler runs.
MaxLoopTicks == 3

TickLoop == TickIn(FALSE, MaxLoopTicks)

NextLoop ==
    \/ Probe
    \/ updateWrite
    \/ updateCount
    \/ SelectDone
    \/ SelectTick
    \/ SelectPark
    \/ Cancel
    \/ TickLoop

SpecLoop == Init /\ [][NextLoop]_vars

\* ------------------------------------------------------------------ deriveStatus on its inputs
\* The results a store can hold for a target: the zero value, a probe that got
\* no response, or a response with any status code client.Do returns.
DeriveCodes == {101, 200, 399, 400, 404}

DeriveEntries(t) ==
    {checkResult(t, 0, "", 0)}
        \cup {checkResult(t, 0, e, 1) : e \in ProbeErrors}
        \cup {checkResult(t, c, "", 1) : c \in DeriveCodes}

DeriveInputs(ts) ==
    {m \in [Range(ts) -> UNION {DeriveEntries(t) : t \in Range(ts)}] :
        \A t \in Range(ts) : m[t].Target = t}

\* The handlers alone, on a store of any content, the check loop having returned.
InitDerive ==
    /\ targets \in TargetLists
    /\ \E m \in DeriveInputs(targets) :
          heap = [a \in {StoreMap} \cup Readers |-> IF a = StoreMap THEN m ELSE EmptyMap]
    /\ successHits = 0
    /\ failHits = 0
    /\ muWriter = FALSE
    /\ muReaders = {}
    /\ pc = "stopped"
    /\ idx = 0
    /\ status = 0
    /\ err = ""
    /\ res = NoRes
    /\ success = FALSE
    /\ ctxDone = TRUE
    /\ tickC = 0
    /\ now = 0
    /\ rpc = [r \in Readers |-> "idle"]
    /\ snap = [r \in Readers |-> NoSnap]
    /\ health = [r \in Readers |-> ""]
    /\ ticks = 0
    /\ passes = 1
    /\ taken = [r \in Readers |-> NoTaken]
    /\ cancelAt = "pass"

NextDerive ==
    \/ \E r \in Readers : snapshotRLock(r)
    \/ \E r \in Readers : snapshotFill(r)
    \/ \E r \in Readers : snapshotReturn(r)

SpecDerive == InitDerive /\ [][NextDerive]_vars

\* ------------------------------------------------------------------ claims
\* The map a handler holds, read through the reference snapshot returned.
Held(r) == heap[snap[r].ref]

\* The latest CheckedAt in a map: the number of updates the map has seen.
Stamp(m) ==
    IF DOMAIN m = {} THEN 0
    ELSE CHOOSE n \in {m[k].CheckedAt : k \in DOMAIN m} :
            \A k \in DOMAIN m : m[k].CheckedAt <= n

\* The update in flight has passed its Lock call and not yet released the lock.
UpdateInFlight == pc \in {"lockwait", "write", "count"}

BetweenPasses == pc \in {"select", "parked", "stopped"}

\* C1: every snapshot handed to a handler is the store after a whole number of
\* completed updates: its counters are the ones that belong to its map (never
\* a new result with the old counters, nor new counters with the old result),
\* and they total the number of updates the map has seen.
C1_SnapshotAtomic ==
    \A r \in Readers :
        snap[r].valid =>
            /\ snap[r].success = taken[r].success
            /\ snap[r].failure = taken[r].failure
            /\ snap[r].success + snap[r].failure = Stamp(taken[r].results)

\* C1 witness: a handler holds a snapshot of one or more completed updates
\* while the next update has called Lock and waits behind a reader.
C1_Witness ==
    \E r \in Readers :
        /\ snap[r].valid
        /\ pc = "lockwait"
        /\ snap[r].success + snap[r].failure = now - 1
        /\ now >= 2

C2_Step ==
    (pc = "count" /\ pc' # "count" /\ res.StatusCode >= 400) =>
       /\ failHits' = failHits + 1
       /\ successHits' = successHits
       /\ heap'[StoreMap][res.Target].StatusCode = res.StatusCode

\* C2 (as claimed): an update whose result carries a status code >= 400
\* increments the failure counter and not the success counter, and the stored
\* result carries that status code.
C2_Status400CountsAsFailure == [][C2_Step]_vars

\* C3 (as claimed): the status derived from a snapshot is "healthy" if and
\* only if every result has a status code in 200..399 and an empty error.
C3_HealthyIff200To399 ==
    \A r \in Readers :
        snap[r].valid =>
            (health[r] = "healthy" <=>
                \A k \in DOMAIN Held(r) :
                    /\ Held(r)[k].StatusCode \in 200..399
                    /\ Held(r)[k].LastError = "")

\* C3 (amended): the status derived from a snapshot is "healthy" if and only
\* if every result has an empty error and a status code that is not 0 and is
\* below 400; otherwise it is "degraded".
C3_HealthyIffNonZeroBelow400 ==
    \A r \in Readers :
        snap[r].valid =>
            /\ health[r] \in {"healthy", "degraded"}
            /\ health[r] = "healthy" <=>
                  \A k \in DOMAIN Held(r) :
                      /\ Held(r)[k].LastError = ""
                      /\ Held(r)[k].StatusCode # 0
                      /\ Held(r)[k].StatusCode < 400

\* C3 witness: a handler derived "healthy" from a snapshot that holds a
\* result with a status code below 200 (and not 0).
C3_Witness ==
    \E r \in Readers :
        /\ snap[r].valid
        /\ health[r] = "healthy"
        /\ \E k \in DOMAIN Held(r) : Held(r)[k].StatusCode < 200

C4_Step ==
    cancelAt \in {"select", "parked"} =>
       /\ passes' = passes
       /\ heap'[StoreMap] = heap[StoreMap]
       /\ successHits' = successHits
       /\ failHits' = failHits

\* C4 (as claimed): once ctx is cancelled while the loop is between passes
\* (at its select, waiting for the next tick), no further pass starts and no
\* update reaches the store.
C4_NoPassAfterCancelInWait == [][C4_Step]_vars

\* C5: successHits + failHits is the number of probes whose update has
\* written its outcome (every probe made, less the one whose update is in
\* flight), and between passes it is passes * K for K configured targets.
C5_TotalIsProbesWritten ==
    /\ successHits + failHits = now - (IF UpdateInFlight THEN 1 ELSE 0)
    /\ BetweenPasses => successHits + failHits = passes * Len(targets)

\* C5 witness: two whole passes over two targets, no cancellation.
C5_Witness ==
    /\ pc = "parked"
    /\ ~ctxDone
    /\ passes = 2
    /\ Len(targets) = 2
    /\ successHits + failHits = 4

C6_Step ==
    /\ successHits' >= successHits
    /\ failHits' >= failHits
    /\ \A r \in Readers :
          (rpc[r] = "copied" /\ rpc'[r] = "idle") =>
              \A q \in Readers \ {r} :
                  snap[q].valid =>
                      /\ snap'[r].success >= snap[q].success
                      /\ snap'[r].failure >= snap[q].failure

\* C6: no step decreases or resets either counter, and a snapshot returned
\* after another one carries counters at least as large.
C6_CountersMonotonic == [][C6_Step]_vars

\* C6 witness: two snapshots are held, one with both counters larger.
C6_Witness ==
    \E r, q \in Readers :
        /\ snap[r].valid
        /\ snap[q].valid
        /\ snap[q].success > snap[r].success
        /\ snap[q].failure > snap[r].failure

\* The update of the first probe of target t has written the map.
FirstProbeWritten(t) ==
    \E j \in 1..Len(targets) :
        /\ targets[j] = t
        /\ \/ passes > 1
           \/ BetweenPasses
           \/ j < idx
           \/ (j = idx /\ pc = "count")

\* C7: the keys of the store and of every snapshot are exactly the configured
\* targets, and a target whose first probe has not been written yet holds the
\* zero-value result.
C7_KeysAreTargets ==
    /\ DOMAIN heap[StoreMap] = Range(targets)
    /\ \A r \in Readers : snap[r].valid => DOMAIN Held(r) = Range(targets)
    /\ \A t \in Range(targets) :
          ~FirstProbeWritten(t) => heap[StoreMap][t] = checkResult(t, 0, "", 0)

\* C7 witness: a snapshot taken in the middle of the first pass holds the first
\* target's result and the zero value of the second.
C7_Witness ==
    \E r \in Readers :
        /\ snap[r].valid
        /\ targets = <<"a", "b">>
        /\ passes = 1
        /\ Held(r)["a"].CheckedAt = 1
        /\ Held(r)["b"] = checkResult("b", 0, "", 0)

C8_Step ==
    /\ (pc = "probe" /\ pc' # "probe" /\ err' # "") =>
          /\ res' = checkResult(targets[idx], 0, err', now')
          /\ res'.LastError # ""
          /\ ~success'
    /\ (pc = "count" /\ pc' # "count" /\ res.LastError # "") =>
          /\ heap'[StoreMap][res.Target] = res
          /\ heap'[StoreMap][res.Target].StatusCode = 0
          /\ failHits' = failHits + 1
          /\ successHits' = successHits
          /\ IF idx < Len(targets)
             THEN pc' = "probe" /\ idx' = idx + 1
             ELSE pc' = "select"

\* C8: a probe that returns an error is handed to update as a failed result
\* with status code 0 and that error; its update stores it, adds exactly 1 to
\* the failure counter and leaves the success counter, and the loop goes on
\* with the next target of the pass.
C8_ProbeErrorRecorded == [][C8_Step]_vars

\* C8 witness: the first target's probe failed, and the loop has gone on to
\* the second target of the same pass.
C8_Witness ==
    /\ pc = "probe"
    /\ idx = 2
    /\ passes = 1
    /\ heap[StoreMap][targets[1]].LastError # ""
    /\ heap[StoreMap][targets[1]].StatusCode = 0
    /\ failHits = 1
    /\ successHits = 0

C9_Step ==
    /\ (pc = "write" /\ pc' = "count") =>
          /\ res.Target \in DOMAIN heap[StoreMap]
          /\ heap'[StoreMap] = [heap[StoreMap] EXCEPT ![res.Target] = res]
          /\ successHits' = successHits
          /\ failHits' = failHits
    /\ (pc = "count" /\ pc' # "count") =>
          /\ heap'[StoreMap] = heap[StoreMap]
          /\ successHits' = successHits + (IF success THEN 1 ELSE 0)
          /\ failHits' = failHits + (IF success THEN 0 ELSE 1)
    /\ (~(pc = "write" /\ pc' = "count") /\ ~(pc = "count" /\ pc' # "count")) =>
          /\ heap'[StoreMap] = heap[StoreMap]
          /\ successHits' = successHits
          /\ failHits' = failHits

\* C9: an update changes the entry of res.Target to res and no other entry,
\* then adds exactly 1 to the success counter if success and to the failure
\* counter otherwise, leaving the other counter; no other step changes the
\* store's map or counters.
C9_UpdateFrame == [][C9_Step]_vars

\* C9 witness: in the second pass the first target has been updated and the
\* second target still holds its result of the first pass.
C9_Witness ==
    /\ targets = <<"a", "b">>
    /\ passes = 2
    /\ pc = "probe"
    /\ idx = 2
    /\ heap[StoreMap]["a"].CheckedAt = 3
    /\ heap[StoreMap]["b"].CheckedAt = 2

\* C10: the map a handler holds is, at every later moment, the store's content
\* at the moment the snapshot was taken, with the same keys, whatever updates
\* have been made since.
C10_SnapshotIndependent ==
    \A r \in Readers :
        snap[r].valid =>
            /\ Held(r) = taken[r].results
            /\ DOMAIN Held(r) = DOMAIN taken[r].results
            /\ snap[r].success + snap[r].failure <= successHits + failHits

\* C10 witness: updates were made after a snapshot returned, and the store's
\* map now differs from the one the handler holds.
C10_Witness ==
    \E r \in Readers :
        /\ snap[r].valid
        /\ successHits + failHits >= snap[r].success + snap[r].failure + 2
        /\ heap[StoreMap] # Held(r)

\* A step of some handler's snapshot call.
SnapshotStep == \E r \in Readers : rpc'[r] # rpc[r]

\* Two held snapshots were taken with no update between them.
NoUpdateBetween(r, q) == taken[r].upd = taken[q].upd

SnapshotsAgree ==
    \A r, q \in Readers :
        (snap[r].valid /\ snap[q].valid /\ NoUpdateBetween(r, q)) =>
            /\ Held(r) = Held(q)
            /\ snap[r].success = snap[q].success
            /\ snap[r].failure = snap[q].failure

C11_Step ==
    /\ SnapshotsAgree'
    /\ SnapshotStep =>
          /\ heap'[StoreMap] = heap[StoreMap]
          /\ successHits' = successHits
          /\ failHits' = failHits

\* C11: two snapshot calls with no update between them return equal maps and
\* equal counters, and no step of a snapshot call changes the store's map or
\* counters.
C11_SnapshotIdempotent == [][C11_Step]_vars

\* C11 witness: two handlers hold snapshots taken after the same one or more
\* updates, with no update between the two calls.
C11_Witness ==
    \E r, q \in Readers :
        /\ r # q
        /\ snap[r].valid
        /\ snap[q].valid
        /\ NoUpdateBetween(r, q)
        /\ taken[r].upd >= 1
        /\ Held(r) = Held(q)

\* The loop takes a tick: out of ticker.C at its select, or handed over while
\* it is parked.
TickReceived ==
    \/ tickC' < tickC
    \/ (pc = "parked" /\ ticks' = ticks + 1)

PassStarts == pc' = "probe" /\ idx' = 1 /\ passes' = passes + 1

C12_Step ==
    /\ pc' = "stopped" => ctxDone'
    /\ (pc # "stopped" /\ pc' = "stopped") => pc \in {"select", "parked"}
    /\ (pc = "probe" /\ pc' # "probe") => pc' \in {"write", "lockwait"}
    /\ (pc = "count" /\ pc' # "count") => pc' \in {"probe", "select"}
    /\ TickReceived => PassStarts
    /\ (~ctxDone /\ pc = "select" /\ pc' # "select") =>
          IF tickC > 0 THEN PassStarts ELSE pc' = "parked"

\* C12: the loop stops only once ctx is cancelled, and only from its select:
\* no probe outcome makes runCheckLoop return, and every tick the loop takes
\* starts a pass; at its select with ctx not cancelled the loop starts a pass
\* if a tick is pending and waits otherwise.
C12_StopsOnlyOnCancel == [][C12_Step]_vars

\* C12 witness: every probe of the first pass failed, ctx is not cancelled,
\* and the loop has started its second pass.
C12_Witness ==
    /\ ~ctxDone
    /\ pc = "probe"
    /\ passes = 2
    /\ Len(targets) = 2
    /\ failHits = 2
    /\ successHits = 0

Stored(j) == heap[StoreMap][targets[j]]

\* C14: the loop starts in its first pass without any tick, nothing else
\* happens in the loop before the first probe (whatever ctx and the ticker have
\* done meanwhile), and whenever the loop is at its select, parked in it or
\* stopped, every configured target has been probed and updated; with one pass
\* started that is exactly one update per configured target.
C14_FirstPassBeforeWait ==
    /\ passes >= 1
    /\ now = 0 => (pc = "probe" /\ idx = 1 /\ passes = 1)
    /\ BetweenPasses =>
          /\ \A j \in 1..Len(targets) : Stored(j).CheckedAt >= 1
          /\ successHits + failHits >= Len(targets)
          /\ passes = 1 => successHits + failHits = Len(targets)

\* C14 witness: the loop has stopped after exactly the launch pass over two
\* targets, with ctx cancelled during that pass and no tick ever fired.
C14_Witness ==
    /\ pc = "stopped"
    /\ cancelAt = "pass"
    /\ ticks = 0
    /\ passes = 1
    /\ Len(targets) = 2
    /\ successHits + failHits = 2

C15_Step ==
    /\ (ctxDone /\ pc \in {"probe", "lockwait", "write"}) =>
          (pc' \in {"probe", "lockwait", "write", "count"} /\ idx' = idx)
    /\ (ctxDone /\ pc = "count" /\ pc' # "count") =>
          IF idx < Len(targets)
          THEN pc' = "probe" /\ idx' = idx + 1
          ELSE pc' = "select"
    /\ (~ctxDone /\ ctxDone' /\ loopPhase = "pass") =>
          (pc' = pc /\ idx' = idx /\ storeVars' = storeVars)
    /\ (pc # "stopped" /\ pc' = "stopped") =>
          \A j \in 1..Len(targets) :
              Stored(j).CheckedAt >= (passes - 1) * Len(targets) + j

\* C15: with ctx cancelled, a pass in progress goes on: the probe under way
\* is written, each update is followed by the probe of the next target, the
\* select is reached only after the last target's update, and when the loop
\* stops every target carries a result of the last pass started.
C15_CancelOnlyAtPassBoundary == [][C15_Step]_vars

\* C15 witness: ctx was cancelled inside the second pass over two targets and
\* the loop stopped with the second target's result of that pass in the store.
C15_Witness ==
    /\ pc = "stopped"
    /\ cancelAt = "pass"
    /\ passes = 2
    /\ targets = <<"a", "b">>
    /\ Stored(2).CheckedAt = 4

\* C16: probe number (p - 1) * K + j is the probe of the target at position j
\* in pass p (K configured targets): inside a pass the update in flight
\* carries the target at the loop's position, the probes made so far are those
\* of the earlier passes and of the earlier positions of this pass, a probe
\* starts only when every earlier update has released the lock and counted,
\* and between passes all passes * K probes are made.
C16_OncePerPassInOrder ==
    /\ ~BetweenPasses =>
          /\ idx \in 1..Len(targets)
          /\ now = (passes - 1) * Len(targets) + idx
                      - (IF pc = "probe" THEN 1 ELSE 0)
    /\ UpdateInFlight =>
          /\ res.Target = targets[idx]
          /\ res.CheckedAt = now
    /\ pc = "probe" =>
          /\ ~muWriter
          /\ successHits + failHits = now
          /\ \A j \in 1..(idx - 1) :
                Stored(j).CheckedAt >= (passes - 1) * Len(targets) + j
    /\ BetweenPasses => now = passes * Len(targets)

\* C16 witness: the second pass over <<"a", "b">> is writing its second
\* target, the fourth probe made.
C16_Witness ==
    /\ passes = 2
    /\ pc = "count"
    /\ idx = 2
    /\ targets = <<"a", "b">>
    /\ res.Target = "b"
    /\ now = 4

\* The number of the latest of the first n probes that was a probe of target
\* t, 0 if none was: probe k is the probe of position ((k - 1) % K) + 1.
LastProbeOf(t, n) ==
    LET of == {k \in 1..n : targets[((k - 1) % Len(targets)) + 1] = t}
    IN  IF of = {} THEN 0 ELSE CHOOSE k \in of : \A h \in of : h <= k

\* The probes whose update has executed line 83.
writesDone == now - (IF pc \in {"lockwait", "write"} THEN 1 ELSE 0)

\* C17 (as claimed): for each target probed at least once, the stored entry
\* is the result of the latest probe of that target that has returned, and for
\* the target probed last it carries that probe's status code and error.
C17_LatestCompletedProbe ==
    /\ \A t \in Range(targets) :
          LastProbeOf(t, now) > 0 =>
              heap[StoreMap][t].CheckedAt = LastProbeOf(t, now)
    /\ UpdateInFlight =>
          /\ Stored(idx).StatusCode = (IF err # "" THEN 0 ELSE status)
          /\ Stored(idx).LastError = err

\* C17 (amended): for each target, the stored entry is the result of the
\* latest probe of that target whose update has written the map (line 83), the
\* zero entry if there is none; once an update has written, the entry of its
\* target is exactly the result built from the probe just made, and until then
\* that result is the one the update carries.
C17_LatestWrittenProbe ==
    /\ \A t \in Range(targets) :
          /\ heap[StoreMap][t].CheckedAt = LastProbeOf(t, writesDone)
          /\ heap[StoreMap][t].CheckedAt = 0 =>
                heap[StoreMap][t] = checkResult(t, 0, "", 0)
    /\ UpdateInFlight => res = checkOnceRes(targets[idx], status, err, now)
    /\ pc = "count" => Stored(idx) = res

\* C17 witness: the single target's first probe succeeded, its second probe
\* failed, and the store holds the second probe's error.
C17_Witness ==
    /\ targets = <<"a">>
    /\ pc = "count"
    /\ passes = 2
    /\ successHits = 1
    /\ Stored(1).CheckedAt = 2
    /\ Stored(1).LastError = "timeout"

\* An update is between its Lock and its Unlock (lines 81-89).
InUpdate == pc \in {"write", "count"}

\* The snapshot call of handler r is between its RLock and its RUnlock
\* (lines 92-98).
InSnapshot(r) == rpc[r] \in {"locked", "copied"}

\* C18: the lock is write-held exactly while the update is inside its critical
\* section and read-held exactly by the snapshot calls inside theirs; no
\* snapshot is inside while the update is; and a snapshot call is admitted
\* while another snapshot is inside, as long as no update holds or awaits the
\* lock. (The loop goroutine is the only caller of update, so two updates are
\* never in flight.)
C18_ReaderWriterDiscipline ==
    /\ muWriter <=> InUpdate
    /\ muReaders = {r \in Readers : InSnapshot(r)}
    /\ InUpdate => \A r \in Readers : ~InSnapshot(r)
    /\ \A r, q \in Readers :
          (r # q /\ InSnapshot(r) /\ rpc[q] = "idle" /\ pc # "lockwait")
              => ENABLED snapshotRLock(q)

\* C18 witness: both handlers are inside snapshot's critical section at once,
\* one still copying, after the loop has made its first probe.
C18_Witness ==
    /\ \A r \in Readers : InSnapshot(r)
    /\ \E r \in Readers : rpc[r] = "locked"
    /\ Cardinality(muReaders) = 2
    /\ now >= 1

\* The result is one that checkOnce hands to update(res, true) and that
\* deriveStatus accepts: no error, a status code that is not 0 and below 400.
GoodResult(e) == e.LastError = "" /\ e.StatusCode # 0 /\ e.StatusCode < 400

\* C19: a /health read whose snapshot holds a target no update has written
\* yet (the zero entry of newResultStore), or a target whose latest result
\* has an error or a status code of 0 or of 400 and above, answers
\* "degraded"; one that answers "healthy" holds for every target a result
\* written by an update that was counted as a success, so it was taken after
\* at least one update per target and its success count covers the targets.
C19_DegradedUntilAllSucceed ==
    \A r \in Readers :
        snap[r].valid =>
            /\ (\E k \in DOMAIN Held(r) : Held(r)[k].CheckedAt = 0)
                  => health[r] = "degraded"
            /\ (\E k \in DOMAIN Held(r) : ~GoodResult(Held(r)[k]))
                  => health[r] = "degraded"
            /\ taken[r].upd < Cardinality(Range(targets))
                  => health[r] = "degraded"
            /\ health[r] = "healthy" =>
                  /\ DOMAIN Held(r) = Range(targets)
                  /\ \A k \in DOMAIN Held(r) :
                        GoodResult(Held(r)[k]) /\ Held(r)[k].CheckedAt >= 1
                  /\ snap[r].success >= Cardinality(Range(targets))

\* C19 witness: a /health read taken in the middle of the first pass, the
\* first target answered 200 and the second not yet written, is "degraded".
C19_Witness ==
    \E r \in Readers :
        /\ snap[r].valid
        /\ targets = <<"a", "b">>
        /\ Held(r)["a"].StatusCode = 200
        /\ Held(r)["b"].CheckedAt = 0
        /\ health[r] = "degraded"

C20_Step ==
    /\ tickC \in {0, 1} /\ tickC' \in {0, 1}
    /\ passes + tickC <= 1 + ticks
    /\ passes' + tickC' <= 1 + ticks'
    /\ tickC' < tickC => (tickC' = 0 /\ PassStarts)
    /\ passes' # passes => (passes' = passes + 1 /\ tickC' = 0)

\* C20: ticker.C holds at most one tick; the passes started plus the tick
\* pending never exceed 1 plus the ticks fired; and a pass starts on a tick
\* only by taking it, which leaves no tick pending, so the ticks fired during
\* one pass give rise to one further pass however many they were.
C20_TicksDoNotAccumulate == [][C20_Step]_vars

\* C20 witness: three ticks fired before the loop's first select (the launch
\* pass outlasted three intervals), one catch-up pass ran, and the loop is
\* parked in its select with no tick pending.
C20_Witness ==
    /\ pc = "parked"
    /\ ticks = 3
    /\ passes = 2
    /\ tickC = 0
    /\ ~ctxDone
====
